---------------------------- MODULE Spec2Model ----------------------------
(***************************************************************************)
(* Time-alignment and merge engine of the lecture-capture converter:       *)
(* main.py (screenshot variant) and markdown.py (download variant).        *)
(*                                                                         *)
(* Python lists are modelled as sequences; Python indices stay 0-based in  *)
(* the loop variables (i, thumb_idx, sub_i) and are translated by PyAt.    *)
(* Python's None is the empty sequence, a present value v is <<v>>.        *)
(***************************************************************************)
EXTENDS Integers, Sequences, FiniteSets, TLC

VARIABLES
    pc,         \* position in the program being run
    variant,    \* "main" (main.py) or "markdown" (markdown.py)
    labels,     \* aria-label values of the thumbnail rows, document order
    n,          \* number of thumbnail rows consumed by the scan loop
    thumbs,     \* main.py: list[int]; markdown.py: list of (ts, path)
    i,          \* loop variable of the fill loop (0-based)
    min_diff,   \* THUMB_MIN_DIFF the module is configured with
    rows,       \* transcript rows (timestamp, text), document order
    subs,       \* the sorted (timestamp, text) list
    sub_i,      \* number of captions consumed by the merge loop
    thumb_idx,  \* thumb_idx of the merge loops
    out,        \* lines written to the output document, in order
    secs,       \* clock_to_str's argument: <<t>>, or <<>> when it is not called
    clock,      \* a clock text (sequence of characters)
    parsed      \* ts_from_clock's result: <<>> before the call, <<v>> after

vars == <<pc, variant, labels, n, thumbs, i, min_diff, rows, subs, sub_i,
          thumb_idx, out, secs, clock, parsed>>

(***************************************************************************)
(* Bounds of the model and the input alphabets.                            *)
(***************************************************************************)
MaxLabels == 4

\* seconds a thumbnail label may name
ThumbSecs == {0, 1, 3, 5, 9, 10}

None == <<>>
Some(v) == <<v>>

SENTINEL == -1

MainMinDiff == -1

\* a label the pattern does not match
NoLabel == [match |-> FALSE, h |-> 0, m |-> 0, s |-> 0]

LabelSet == {NoLabel} \cup {[match |-> TRUE, h |-> 0, m |-> 0, s |-> x] : x \in ThumbSecs}

MdMinDiff == 60

\* a positive THUMB_MIN_DIFF main.py may be configured with
MainMinDiffOn == 3

\* markdown.py reads the label of the row and the style of its inner div:
\* url tells whether the style holds a url(...)
MdLabelSet ==
    {[match |-> FALSE, h |-> 0, m |-> 0, s |-> 0, url |-> TRUE],
     [match |-> TRUE, h |-> 0, m |-> 1, s |-> 0, url |-> FALSE]}
    \cup {[match |-> TRUE, h |-> 0, m |-> mm, s |-> ss, url |-> TRUE] :
             mm \in 0..2, ss \in {0, 30}}

RECURSIVE SeqsUpTo(_, _)
SeqsUpTo(S, k) ==
    IF k = 0 THEN {<<>>}
    ELSE LET shorter == SeqsUpTo(S, k - 1)
         IN  shorter \cup {Append(q, x) : q \in {r \in shorter : Len(r) = k - 1}, x \in S}

Last(list) == list[Len(list)]

\* list[k] for a Python index k: a negative k counts from the end
PyAt(list, k) == IF k < 0 THEN list[Len(list) + k + 1] ELSE list[k + 1]

\* whether list[k] raises IndexError
PyOutOfRange(list, k) == k >= Len(list) \/ k < -Len(list)

(***************************************************************************)
(* main.py: ts_from_thumb and extract_thumb                                *)
(***************************************************************************)
\* the groups of _THUMB_RE that are absent count 0; no match gives None
ts_from_thumb(label) ==
    IF ~label.match THEN None
    ELSE Some(label.h * 3600 + label.m * 60 + label.s)

\* lines 153-157: walk back from index k, replacing values >= t by -1,
\* stopping at the first value that is not >= t
RECURSIVE InvalidateBack(_, _, _)
InvalidateBack(list, k, t) ==
    IF k < 0 THEN list
    ELSE IF PyAt(list, k) >= t
         THEN InvalidateBack([list EXCEPT ![k + 1] = SENTINEL], k - 1, t)
         ELSE list

\* the scan loop marking the out-of-order row itself, not the rows before it
ScanOne_MarkNew(list, label) ==
    LET t == ts_from_thumb(label)
    IN  IF t # None
        THEN IF list # <<>> /\ Last(list) >= t[1]
             THEN Append(list, SENTINEL)
             ELSE Append(list, t[1])
        ELSE Append(list, 0)

\* lines 147-162: the body of the scan loop for one thumbnail row
ScanOne(list, label) ==
    LET t == ts_from_thumb(label)
    IN  IF t # None
        THEN Append(IF list # <<>> /\ Last(list) >= t[1]
                    THEN InvalidateBack(list, Len(list) - 1, t[1])
                    ELSE list,
                    t[1])
        ELSE Append(list, 0)

\* lines 169-174: num_of_invalid, counted from index k
RECURSIVE RunLength(_, _)
RunLength(list, k) ==
    IF k < Len(list) /\ PyAt(list, k) = SENTINEL
    THEN 1 + RunLength(list, k + 1)
    ELSE 0

\* int(x) for the rational x = num / den, den > 0: truncation toward zero
IntTrunc(num, den) ==
    IF num >= 0 THEN num \div den ELSE -((-num) \div den)

\* lines 178-183: int(lo + (hi - lo) / (num_of_invalid + 1) * (j - i + 1))
FillValue(lo, hi, num, step) ==
    IntTrunc(lo * (num + 1) + (hi - lo) * step, num + 1)

\* lines 176-184: the run of num sentinels starting at index k is filled;
\* thumbs[k - 1] and thumbs[k + num] are read with Python's indexing
FillRun(list, k, num) ==
    [p \in 1..Len(list) |->
        IF p - 1 >= k /\ p - 1 < k + num
        THEN FillValue(PyAt(list, k - 1), PyAt(list, k + num), num, p - k)
        ELSE list[p]]

\* lines 186-195: the optional min-gap cleaning of main.py
RECURSIVE CleanFrom(_, _, _, _)
CleanFrom(list, k, last_ts, gap) ==
    IF k > Len(list) THEN <<>>
    ELSE IF list[k] - last_ts >= gap
         THEN <<list[k]>> \o CleanFrom(list, k + 1, list[k], gap)
         ELSE CleanFrom(list, k + 1, last_ts, gap)

CleanThumbs(list, gap) ==
    IF gap > 0 THEN CleanFrom(list, 1, 0, gap) ELSE list

(***************************************************************************)
(* markdown.py: thumbnail extraction and cleaning (lines 89-126)           *)
(***************************************************************************)
\* list.sort(key=lambda t: t[0]): stable, ascending in the first component
\* an insertion that puts x before the elements of its own timestamp
RECURSIVE InsertByTs_Unstable(_, _)
InsertByTs_Unstable(sorted, x) ==
    IF sorted = <<>> THEN <<x>>
    ELSE IF Last(sorted).ts < x.ts THEN Append(sorted, x)
         ELSE Append(InsertByTs_Unstable(SubSeq(sorted, 1, Len(sorted) - 1), x),
                     Last(sorted))

RECURSIVE InsertByTs(_, _)
InsertByTs(sorted, x) ==
    IF sorted = <<>> THEN <<x>>
    ELSE IF Last(sorted).ts <= x.ts THEN Append(sorted, x)
         ELSE Append(InsertByTs(SubSeq(sorted, 1, Len(sorted) - 1), x), Last(sorted))

RECURSIVE SortFrom(_, _, _)
SortFrom(list, k, acc) ==
    IF k > Len(list) THEN acc
    ELSE SortFrom(list, k + 1, InsertByTs(acc, list[k]))

SortByTs(list) == SortFrom(list, 1, <<>>)

\* lines 90-114: the rows whose label parses and whose style holds a url,
\* each with the path numbered by thumb_counter
RECURSIVE MdCollect(_, _, _, _)
MdCollect(lbls, k, acc, thumb_counter) ==
    IF k > Len(lbls) THEN acc
    ELSE LET t == ts_from_thumb(lbls[k])
         IN  IF t = None \/ ~lbls[k].url
             THEN MdCollect(lbls, k + 1, acc, thumb_counter)
             ELSE MdCollect(lbls, k + 1,
                            Append(acc, [ts |-> t[1], path |-> thumb_counter]),
                            thumb_counter + 1)

\* lines 119-126: the min-gap cleaning of markdown.py
RECURSIVE MdCleanFrom(_, _, _, _)
MdCleanFrom(list, k, last_ts, gap) ==
    IF k > Len(list) THEN <<>>
    ELSE IF list[k].ts - last_ts >= gap
         THEN <<list[k]>> \o MdCleanFrom(list, k + 1, list[k].ts, gap)
         ELSE MdCleanFrom(list, k + 1, last_ts, gap)

MdCleanThumbs(list, gap) == MdCleanFrom(list, 1, 0, gap)

\* values of the variables a specification does not use
IdleThumb ==
    /\ labels = <<>> /\ n = 0 /\ i = 0
IdleMerge ==
    /\ rows = <<>> /\ subs = <<>> /\ sub_i = 0 /\ thumb_idx = 0 /\ out = <<>>
IdleClock ==
    /\ secs = None /\ clock = <<>> /\ parsed = None

InitThumb ==
    /\ variant \in {"main", "markdown"}
    /\ IF variant = "main"
       THEN /\ labels \in SeqsUpTo(LabelSet, MaxLabels)
            /\ min_diff \in {MainMinDiff, MainMinDiffOn}
            /\ pc = IF labels = <<>> THEN "clean" ELSE "scan"
       ELSE /\ labels \in SeqsUpTo(MdLabelSet, MaxLabels)
            /\ min_diff = MdMinDiff
            /\ pc = "md_thumbs"
    /\ n = 0
    /\ thumbs = <<>>
    /\ i = 0
    /\ IdleMerge /\ IdleClock

\* one iteration of the loop of lines 146-162
ScanLabel ==
    /\ pc = "scan"
    /\ n < Len(labels)
    /\ thumbs' = ScanOne(thumbs, labels[n + 1])
    /\ n' = n + 1
    /\ pc' = IF n + 1 < Len(labels) THEN "scan" ELSE "fill"
    /\ UNCHANGED <<variant, labels, i, min_diff, rows, subs, sub_i, thumb_idx,
                   out, secs, clock, parsed>>

\* one iteration of the loop of lines 165-184
FillStep ==
    /\ pc = "fill"
    /\ i < Len(thumbs)
    /\ IF PyAt(thumbs, i) = SENTINEL
       THEN LET num == RunLength(thumbs, i)
            IN  IF PyOutOfRange(thumbs, i + num)
                THEN /\ pc' = "IndexError"
                     /\ UNCHANGED <<thumbs, i>>
                ELSE /\ thumbs' = FillRun(thumbs, i, num)
                     /\ i' = i + 1
                     /\ pc' = IF i + 1 < Len(thumbs) THEN "fill" ELSE "clean"
       ELSE /\ i' = i + 1
            /\ pc' = IF i + 1 < Len(thumbs) THEN "fill" ELSE "clean"
            /\ UNCHANGED thumbs
    /\ UNCHANGED <<variant, labels, n, min_diff, rows, subs, sub_i, thumb_idx,
                   out, secs, clock, parsed>>

\* lines 186-197: the cleaning and the return
CleanAndReturn ==
    /\ pc = "clean"
    /\ variant = "main"
    /\ thumbs' = CleanThumbs(thumbs, min_diff)
    /\ pc' = "done"
    /\ UNCHANGED <<variant, labels, n, i, min_diff, rows, subs, sub_i,
                   thumb_idx, out, secs, clock, parsed>>

\* markdown.py lines 89-116: the thumbnail rows are collected and sorted
MdExtractThumbs ==
    /\ pc = "md_thumbs"
    /\ variant = "markdown"
    /\ thumbs' = SortByTs(MdCollect(labels, 1, <<>>, 1))
    /\ n' = Len(labels)
    /\ pc' = "md_clean"
    /\ UNCHANGED <<variant, labels, i, min_diff, rows, subs, sub_i, thumb_idx,
                   out, secs, clock, parsed>>

\* markdown.py lines 118-126
MdClean ==
    /\ pc = "md_clean"
    /\ variant = "markdown"
    /\ thumbs' = MdCleanThumbs(thumbs, min_diff)
    /\ pc' = "done"
    /\ UNCHANGED <<variant, labels, n, i, min_diff, rows, subs, sub_i,
                   thumb_idx, out, secs, clock, parsed>>

NextThumb == ScanLabel \/ FillStep \/ CleanAndReturn \/ MdExtractThumbs \/ MdClean

SpecThumb == InitThumb /\ [][NextThumb]_vars

(***************************************************************************)
(* Properties of extract_thumb                                             *)
(***************************************************************************)
IsNonDecreasing(list) ==
    \A p \in 1..(Len(list) - 1) : list[p] <= list[p + 1]

NoSentinel(list) ==
    \A p \in 1..Len(list) : list[p] # SENTINEL

\* the timestamps the labels parse to, a label without a match counting 0
RawTimestamps ==
    [p \in 1..Len(labels) |->
        IF ts_from_thumb(labels[p]) = None THEN 0 ELSE ts_from_thumb(labels[p])[1]]

\* round(num / den), den > 0, halves to the even neighbour as Python's round
Round(num, den) ==
    LET fl == num \div den
        r  == num % den
    IN  IF 2 * r < den THEN fl
        ELSE IF 2 * r > den THEN fl + 1
        ELSE IF fl % 2 = 0 THEN fl ELSE fl + 1

\* C1: with the min-gap cleaning disabled, the list extract_thumb returns is
\* non-decreasing and holds no sentinel.
C1_ReturnedNonDecreasing ==
    (pc = "done" /\ variant = "main" /\ min_diff <= 0)
        => (IsNonDecreasing(thumbs) /\ NoSentinel(thumbs))

\* the timestamps of the thumbnail list of either variant
TsOf(list) ==
    [p \in 1..Len(list) |-> IF variant = "main" THEN list[p] ELSE list[p].ts]

\* the positions a cleaning keeps that always keeps the first record and keeps
\* a later one exactly when it is at least gap after the last kept one
RECURSIVE KeepFirstFrom(_, _, _, _)
KeepFirstFrom(tss, k, last_ts, gap) ==
    IF k > Len(tss) THEN <<>>
    ELSE IF k = 1 \/ tss[k] - last_ts >= gap
         THEN <<k>> \o KeepFirstFrom(tss, k + 1, tss[k], gap)
         ELSE KeepFirstFrom(tss, k + 1, last_ts, gap)

\* C6: with min_gap > 0 the cleaning of a non-empty non-decreasing list keeps
\* the first record, and each later record exactly when its timestamp minus
\* the last kept timestamp is >= min_gap.
C6_CleaningKeepsFirst ==
    [][(pc \in {"clean", "md_clean"} /\ min_diff > 0 /\ thumbs # <<>>
            /\ IsNonDecreasing(TsOf(thumbs)))
        => LET kept == KeepFirstFrom(TsOf(thumbs), 1, 0, min_diff)
           IN  thumbs' = [p \in 1..Len(kept) |-> thumbs[kept[p]]]]_vars

\* C7: the fill of a maximal run of k sentinels starting at index i sets its
\* j-th member to lo + round((hi - lo) * j / (k + 1)), where lo is the value
\* just before the run, or 0 when the run starts at index 0, and hi is the
\* value just after the run.
C7_FillIsRoundedInterpolation ==
    [][(pc = "fill" /\ i < Len(thumbs) /\ PyAt(thumbs, i) = SENTINEL
            /\ pc' # "IndexError")
        => LET k  == RunLength(thumbs, i)
               lo == IF i = 0 THEN 0 ELSE thumbs[i]
               hi == thumbs[i + k + 1]
           IN  \A j \in 1..k :
                   thumbs'[i + j] = lo + Round((hi - lo) * j, k + 1)]_vars

\* C8: a raw timestamp <= the one accepted before it is itself the invalid
\* record: the records before it keep their values and it becomes the
\* sentinel, later replaced by a value strictly between its valid neighbours
\* (raw [5, 3, 10] returns [5, x, 10] with 5 < x < 10); the first record of
\* the list is never the sentinel.
C8_LaterRecordIsTheInvalidOne ==
    /\ [][(pc = "scan" /\ n < Len(labels) /\ thumbs # <<>>
              /\ ts_from_thumb(labels[n + 1]) # None
              /\ Last(thumbs) >= ts_from_thumb(labels[n + 1])[1])
          => thumbs' = Append(thumbs, SENTINEL)]_vars
    /\ []((variant = "main" /\ thumbs # <<>>) => thumbs[1] # SENTINEL)
    /\ []((pc = "done" /\ RawTimestamps = <<5, 3, 10>>)
          => (thumbs[1] = 5 /\ 5 < thumbs[2] /\ thumbs[2] < 10 /\ thumbs[3] = 10))

\* C10: the last element of the list is never the sentinel once the scan is
\* over, so every run of sentinels has a valid right neighbour inside the
\* list and the fill never reads past the end of the list.
C10_NoTrailingSentinelRun ==
    /\ pc # "IndexError"
    /\ (pc \in {"fill", "clean"} /\ thumbs # <<>>) => Last(thumbs) # SENTINEL
    /\ (pc = "fill" /\ i < Len(thumbs) /\ PyAt(thumbs, i) = SENTINEL)
          => ~PyOutOfRange(thumbs, i + RunLength(thumbs, i))

\* the scan has ended with a run of sentinels in the list
C10_Witness ==
    /\ pc = "fill" /\ i = 0
    /\ \E p \in 1..Len(thumbs) : thumbs[p] = SENTINEL

(***************************************************************************)
(* main.py: ts_from_clock (lines 73-87) and clock_to_str (lines 112-115)   *)
(* A text is a sequence of characters: the digits, ":", " " and "x" (any   *)
(* character that is neither a digit, a colon nor white space).            *)
(***************************************************************************)
MaxHours == 101

ClockMinutes == {0, 2, 5, 59}

ClockSecs == {0, 3, 9, 59}

ClockSeconds ==
    {h * 3600 + m * 60 + s : h \in 0..MaxHours, m \in ClockMinutes, s \in ClockSecs}

DigitChars == <<"0", "1", "2", "3", "4", "5", "6", "7", "8", "9">>

IsDigit(c) == \E d \in 1..10 : DigitChars[d] = c

DigitValue(c) == (CHOOSE d \in 1..10 : DigitChars[d] = c) - 1

\* the decimal digits of k >= 0
RECURSIVE Decimal(_)
Decimal(k) ==
    IF k < 10 THEN <<DigitChars[k + 1]>>
    ELSE Append(Decimal(k \div 10), DigitChars[(k % 10) + 1])

\* the format spec :02 - at least two characters, padded with zeros
Pad2(k) == IF k < 10 THEN <<"0">> \o Decimal(k) ELSE Decimal(k)

\* the hours cut to two digits
clock_to_str_TwoDigitHours(t) ==
    LET h == t \div 3600
        r == t % 3600
    IN  Pad2(h % 100) \o <<":">> \o Pad2(r \div 60) \o <<":">> \o Pad2(r % 60)

clock_to_str(t) ==
    LET h == t \div 3600
        r == t % 3600
        m == r \div 60
        s == r % 60
    IN  Pad2(h) \o <<":">> \o Pad2(m) \o <<":">> \o Pad2(s)

\* str.strip(): leading and trailing white space removed
RECURSIVE Strip(_)
Strip(text) ==
    IF text = <<>> THEN text
    ELSE IF Head(text) = " " THEN Strip(Tail(text))
    ELSE IF Last(text) = " " THEN Strip(SubSeq(text, 1, Len(text) - 1))
    ELSE text

\* str.split(":"): the pieces between the colons, empty pieces included
RECURSIVE SplitFrom(_, _, _)
SplitFrom(text, k, piece) ==
    IF k > Len(text) THEN <<piece>>
    ELSE IF text[k] = ":" THEN <<piece>> \o SplitFrom(text, k + 1, <<>>)
    ELSE SplitFrom(text, k + 1, Append(piece, text[k]))

Split(text) == SplitFrom(text, 1, <<>>)

RECURSIVE DigitsValue(_, _)
DigitsValue(digits, acc) ==
    IF digits = <<>> THEN acc
    ELSE DigitsValue(Tail(digits), acc * 10 + DigitValue(Head(digits)))

\* int(p) for a piece of text: None stands for the ValueError it raises
ParseInt(piece) ==
    LET d == Strip(piece)
    IN  IF d # <<>> /\ \A k \in 1..Len(d) : IsDigit(d[k])
        THEN Some(DigitsValue(d, 0))
        ELSE None

\* None stands for the ValueError of line 74 or of line 85
ts_from_clock(text) ==
    LET pieces == Split(Strip(text))
        parts  == [k \in 1..Len(pieces) |-> ParseInt(pieces[k])]
    IN  IF \E k \in 1..Len(parts) : parts[k] = None THEN None
        ELSE IF Len(parts) = 3
             THEN Some(parts[1][1] * 3600 + parts[2][1] * 60 + parts[3][1])
        ELSE IF Len(parts) = 2
             THEN Some(0 * 3600 + parts[1][1] * 60 + parts[2][1])
        ELSE None

\* clock texts as the transcript writes them, well-formed and not
ClockTexts ==
    { <<"5", ":", "0", "3">>, <<"5", ":", "0", "9">>,
      <<"1", ":", "0", "2", ":", "0", "3">>, <<" ", "0", ":", "0", "7", " ">>,
      <<"1", ":", " ", "5">>, <<"x">>, <<>>, <<"7">>, <<"1", ":", ":", "2">>,
      <<"1", ":", "2", ":", "3", ":", "4">>, <<"1", "2", ":", "x", "4">> }

InitClock ==
    /\ variant = "main"
    /\ \/ /\ pc = "format" /\ secs \in {Some(t) : t \in ClockSeconds} /\ clock = <<>>
       \/ /\ pc = "parse" /\ secs = None /\ clock \in ClockTexts
    /\ parsed = None
    /\ thumbs = <<>> /\ min_diff = MainMinDiff
    /\ IdleThumb /\ IdleMerge

\* clock_str = clock_to_str(ts), as grab_screenshots calls it
FormatClock ==
    /\ pc = "format"
    /\ clock' = clock_to_str(secs[1])
    /\ pc' = "parse"
    /\ UNCHANGED <<variant, labels, n, thumbs, i, min_diff, rows, subs, sub_i,
                   thumb_idx, out, secs, parsed>>

\* ts = ts_from_clock(text), as extract_subs calls it
ParseClock ==
    /\ pc = "parse"
    /\ parsed' = ts_from_clock(clock)
    /\ pc' = IF ts_from_clock(clock) = None THEN "ValueError" ELSE "done"
    /\ UNCHANGED <<variant, labels, n, thumbs, i, min_diff, rows, subs, sub_i,
                   thumb_idx, out, secs, clock>>

NextClock == FormatClock \/ ParseClock

SpecClock == InitClock /\ [][NextClock]_vars

\* C9: ts_from_clock(clock_to_str(s)) = s for every s >= 0, also from 100
\* hours on; clock_to_str writes zero-padded hours:minutes:seconds with the
\* minutes and seconds below 60 (3723 is "01:02:03", 303 is "00:05:03").
C9_ClockRoundTrip ==
    /\ (secs # None /\ pc \in {"done", "ValueError"})
          => (pc = "done" /\ parsed = secs)
    /\ (secs # None /\ pc = "parse")
          => LET pieces == Split(clock)
             IN  /\ Len(pieces) = 3
                 /\ \A k \in 1..3 : Len(pieces[k]) >= 2 /\ ParseInt(pieces[k]) # None
                 /\ ParseInt(pieces[2])[1] < 60 /\ ParseInt(pieces[3])[1] < 60
    /\ (secs = Some(3723) /\ pc = "parse")
          => clock = <<"0", "1", ":", "0", "2", ":", "0", "3">>
    /\ (secs = Some(303) /\ pc = "parse")
          => clock = <<"0", "0", ":", "0", "5", ":", "0", "3">>

\* a time of 100 hours or more has been formatted and parsed back
C9_Witness ==
    /\ pc = "done" /\ secs # None /\ secs[1] >= 100 * 3600
    /\ parsed = secs
    /\ Len(clock) = 9

(***************************************************************************)
(* The document pipelines: extract_subs, the thumbnail extraction and the  *)
(* merge of main.py (output_markdown) and of markdown.py (lines 138-162).  *)
(* A line of the output is [kind, val]: a caption ("line", its text), a    *)
(* separator of main.py ("sep", its number), an image reference of         *)
(* markdown.py ("img", its path) or an empty line ("blank").  The text of  *)
(* a transcript row is named by the row's position in the document.        *)
(***************************************************************************)
MaxSubs == 3

MaxThumbs == 2

\* clock texts of the transcript rows of the two example documents
MainCaptionClocks ==
    { <<"0", ":", "0", "0">>, <<"0", ":", "0", "5">>, <<"0", ":", "1", "0">>, <<"x">> }

MdCaptionClocks ==
    { <<"0", ":", "0", "0">>, <<"1", ":", "0", "0">>, <<"2", ":", "0", "0">>, <<"x">> }

\* thumbnail labels of the two example documents
MainThumbLabels == {l \in LabelSet : ~l.match \/ l.s \in {3, 5, 10}}

MdThumbLabels ==
    {l \in MdLabelSet : ~l.match \/ ~l.url \/ l.m * 60 + l.s \in {60, 120, 150}}

RowsOver(clocks) ==
    {[k \in 1..Len(q) |-> [clock |-> q[k], text |-> k]] : q \in SeqsUpTo(clocks, MaxSubs)}

\* extract_subs lines 123-134 (markdown.py 74-85): the (ts, text) pairs of the
\* rows; None stands for the ValueError ts_from_clock raises
ParseRows(rws) ==
    IF \E k \in 1..Len(rws) : ts_from_clock(rws[k].clock) = None THEN None
    ELSE Some([k \in 1..Len(rws) |->
                  [ts |-> ts_from_clock(rws[k].clock)[1], text |-> rws[k].text]])

\* extract_thumb lines 145-162 as a whole
RECURSIVE ScanFrom(_, _, _)
ScanFrom(lbls, k, acc) ==
    IF k > Len(lbls) THEN acc
    ELSE ScanFrom(lbls, k + 1, ScanOne(acc, lbls[k]))

\* extract_thumb lines 165-184 as a whole, from index k; None stands for the
\* IndexError of a read past the end of the list
RECURSIVE FillFrom(_, _)
FillFrom(list, k) ==
    IF k >= Len(list) THEN Some(list)
    ELSE IF PyAt(list, k) # SENTINEL THEN FillFrom(list, k + 1)
    ELSE IF PyOutOfRange(list, k + RunLength(list, k)) THEN None
    ELSE FillFrom(FillRun(list, k, RunLength(list, k)), k + 1)

extract_thumb(lbls, gap) ==
    LET filled == FillFrom(ScanFrom(lbls, 1, <<>>), 0)
    IN  IF filled = None THEN None ELSE Some(CleanThumbs(filled[1], gap))

\* markdown.py lines 89-126 as a whole
md_thumbs(lbls, gap) ==
    MdCleanThumbs(SortByTs(MdCollect(lbls, 1, <<>>, 1)), gap)

Line(kind, val) == [kind |-> kind, val |-> val]

\* output_markdown lines 207-209, the while loop with its condition relaxed
\* from <= to <
RECURSIVE Separators_Strict(_, _, _)
Separators_Strict(list, idx, t) ==
    IF idx < Len(list) /\ PyAt(list, idx) < t
    THEN <<Line("sep", idx + 1)>> \o Separators_Strict(list, idx + 1, t)
    ELSE <<>>

\* output_markdown lines 207-209: the separators written before a caption of
\* timestamp t, thumb_idx being idx
RECURSIVE Separators(_, _, _)
Separators(list, idx, t) ==
    IF idx < Len(list) /\ PyAt(list, idx) <= t
    THEN <<Line("sep", idx + 1)>> \o Separators(list, idx + 1, t)
    ELSE <<>>

\* markdown.py lines 143-148: the images written before a caption
RECURSIVE ImagesBefore(_, _, _)
ImagesBefore(list, idx, t) ==
    IF idx < Len(list) /\ t > PyAt(list, idx).ts
    THEN <<Line("blank", 0), Line("img", PyAt(list, idx).path), Line("blank", 0)>>
         \o ImagesBefore(list, idx + 1, t)
    ELSE <<>>

\* markdown.py lines 153-162: the images written after a caption; next_ts is
\* None for float("inf")
RECURSIVE ImagesAfter(_, _, _, _)
ImagesAfter(list, idx, t, next_ts) ==
    IF /\ idx < Len(list)
       /\ t < PyAt(list, idx).ts
       /\ (next_ts = None \/ PyAt(list, idx).ts <= next_ts[1])
    THEN <<Line("blank", 0), Line("img", PyAt(list, idx).path), Line("blank", 0)>>
         \o ImagesAfter(list, idx + 1, t, next_ts)
    ELSE <<>>

\* the number of image lines among lines
RECURSIVE CountKind(_, _)
CountKind(lines, kind) ==
    IF lines = <<>> THEN 0
    ELSE (IF Head(lines).kind = kind THEN 1 ELSE 0) + CountKind(Tail(lines), kind)

InitMerge ==
    /\ variant \in {"main", "markdown"}
    /\ IF variant = "main"
       THEN /\ rows \in RowsOver(MainCaptionClocks)
            /\ labels \in SeqsUpTo(MainThumbLabels, MaxThumbs)
            /\ min_diff = MainMinDiff
       ELSE /\ rows \in RowsOver(MdCaptionClocks)
            /\ labels \in SeqsUpTo(MdThumbLabels, MaxThumbs)
            /\ min_diff = MdMinDiff
    /\ pc = "subs"
    /\ subs = <<>> /\ thumbs = <<>>
    /\ n = 0 /\ i = 0 /\ sub_i = 0 /\ thumb_idx = 0 /\ out = <<>>
    /\ IdleClock

\* extract_subs (main.py lines 118-137, markdown.py lines 73-87)
ExtractSubs ==
    /\ pc = "subs"
    /\ IF ParseRows(rows) = None
       THEN /\ pc' = "ValueError"
            /\ UNCHANGED subs
       ELSE /\ subs' = SortByTs(ParseRows(rows)[1])
            /\ pc' = "thumbs"
    /\ UNCHANGED <<variant, labels, n, thumbs, i, min_diff, rows, sub_i,
                   thumb_idx, out, secs, clock, parsed>>

\* thumbs = extract_thumb(input_html) of main.py line 275
MainExtractThumb ==
    /\ pc = "thumbs"
    /\ variant = "main"
    /\ IF extract_thumb(labels, min_diff) = None
       THEN /\ pc' = "IndexError"
            /\ UNCHANGED thumbs
       ELSE /\ thumbs' = extract_thumb(labels, min_diff)[1]
            /\ pc' = IF subs = <<>> THEN "done" ELSE "merge"
    /\ n' = Len(labels)
    /\ UNCHANGED <<variant, labels, i, min_diff, rows, subs, sub_i, thumb_idx,
                   out, secs, clock, parsed>>

\* markdown.py lines 89-136: the thumbnails are collected, sorted, cleaned
\* and downloaded; a download may raise
MdThumbs ==
    /\ pc = "thumbs"
    /\ variant = "markdown"
    /\ thumbs' = md_thumbs(labels, min_diff)
    /\ n' = Len(labels)
    /\ \/ pc' = IF subs = <<>> THEN "done" ELSE "merge"
       \/ /\ md_thumbs(labels, min_diff) # <<>>
          /\ pc' = "HTTPError"
    /\ UNCHANGED <<variant, labels, i, min_diff, rows, subs, sub_i, thumb_idx,
                   out, secs, clock, parsed>>

\* one iteration of the loop of output_markdown, lines 205-211
WriteCaption ==
    /\ pc = "merge"
    /\ variant = "main"
    /\ sub_i < Len(subs)
    /\ LET t    == PyAt(subs, sub_i).ts
           seps == Separators(thumbs, thumb_idx, t)
       IN  /\ out' = out \o seps \o <<Line("line", PyAt(subs, sub_i).text)>>
           /\ thumb_idx' = thumb_idx + Len(seps)
    /\ sub_i' = sub_i + 1
    /\ pc' = IF sub_i + 1 < Len(subs) THEN "merge" ELSE "done"
    /\ UNCHANGED <<variant, labels, n, thumbs, i, min_diff, rows, subs, secs,
                   clock, parsed>>

\* one iteration of the loop of markdown.py, lines 141-162
MdMergeCaption ==
    /\ pc = "merge"
    /\ variant = "markdown"
    /\ sub_i < Len(subs)
    /\ LET t       == PyAt(subs, sub_i).ts
           before  == ImagesBefore(thumbs, thumb_idx, t)
           idx     == thumb_idx + CountKind(before, "img")
           next_ts == IF sub_i + 1 < Len(subs)
                      THEN Some(PyAt(subs, sub_i + 1).ts) ELSE None
           after   == ImagesAfter(thumbs, idx, t, next_ts)
       IN  /\ out' = out \o before \o <<Line("line", PyAt(subs, sub_i).text)>> \o after
           /\ thumb_idx' = idx + CountKind(after, "img")
    /\ sub_i' = sub_i + 1
    /\ pc' = IF sub_i + 1 < Len(subs) THEN "merge" ELSE "done"
    /\ UNCHANGED <<variant, labels, n, thumbs, i, min_diff, rows, subs, secs,
                   clock, parsed>>

NextMerge ==
    ExtractSubs \/ MainExtractThumb \/ MdThumbs \/ WriteCaption \/ MdMergeCaption

SpecMerge == InitMerge /\ [][NextMerge]_vars

(***************************************************************************)
(* Properties of the merges                                                *)
(***************************************************************************)
\* the timestamp extract_subs parsed for the transcript row named text
CaptionTs(text) == ts_from_clock(rows[text].clock)[1]

\* the positions of out that hold a line of the given kind
PositionsOf(kind) == {p \in 1..Len(out) : out[p].kind = kind}

\* the positions of out that hold the line [kind, val]
PositionsOfLine(kind, val) == {p \in PositionsOf(kind) : out[p].val = val}

\* C2: for ascending thumbnails the k-th thumbnail, of timestamp T, has the
\* separator numbered k, written immediately before the first caption whose
\* timestamp is >= T: the captions before it are those of timestamp < T, the
\* captions after it those of timestamp >= T, and only separators stand
\* between it and that caption.
C2_SeparatorBeforeFirstLaterCaption ==
    (pc = "done" /\ variant = "main" /\ IsNonDecreasing(thumbs))
        => \A k \in 1..Len(thumbs) :
              (\E c \in 1..Len(subs) : subs[c].ts >= thumbs[k])
              => /\ Cardinality(PositionsOfLine("sep", k)) = 1
                 /\ LET p == CHOOSE q \in PositionsOfLine("sep", k) : TRUE
                        first == CHOOSE q \in PositionsOf("line") :
                                    /\ q > p
                                    /\ \A r \in PositionsOf("line") : r > p => q <= r
                    IN  /\ \A q \in PositionsOf("line") :
                              /\ q < p => CaptionTs(out[q].val) < thumbs[k]
                              /\ q > p => CaptionTs(out[q].val) >= thumbs[k]
                        /\ \A c \in 1..Len(subs) :
                              subs[c].ts < thumbs[k]
                              => \E q \in PositionsOfLine("line", subs[c].text) : q < p
                        /\ \A q \in (p + 1)..(first - 1) : out[q].kind = "sep"
                        /\ \A j \in 1..(k - 1) :
                              \E q \in PositionsOfLine("sep", j) : q < p

\* two thumbnails, the second at the timestamp of a caption that is not the
\* first one, have their separators in the finished document
C2_Witness ==
    /\ pc = "done" /\ variant = "main" /\ IsNonDecreasing(thumbs)
    /\ Len(thumbs) = 2 /\ thumb_idx = 2
    /\ \E c \in 2..Len(subs) : subs[c].ts = thumbs[2] /\ subs[c - 1].ts < thumbs[2]

\* C3: a thumbnail later than every caption has its separator after the last
\* caption, numbered next after the earlier ones: as many separators are
\* written as there are thumbnails.
C3_TrailingSeparatorsWritten ==
    (pc = "done" /\ variant = "main" /\ IsNonDecreasing(thumbs) /\ subs # <<>>)
        => /\ Cardinality(PositionsOf("sep")) = Len(thumbs)
           /\ \A k \in 1..Len(thumbs) :
                 (\A c \in 1..Len(subs) : subs[c].ts < thumbs[k])
                 => \E p \in PositionsOfLine("sep", k) :
                       \A q \in PositionsOf("line") : q < p

\* C4: the merge of markdown.py writes exactly one image line for each
\* thumbnail that survived the cleaning, and thumb_idx ends at their number.
C4_OneImagePerThumbnail ==
    (pc = "done" /\ variant = "markdown")
        => /\ \A k \in 1..Len(thumbs) :
                 Cardinality(PositionsOfLine("img", thumbs[k].path)) = 1
           /\ Cardinality(PositionsOf("img")) = Len(thumbs)
           /\ thumb_idx = Len(thumbs)

\* C5: the caption lines of the output are the parsed transcript rows, each
\* exactly once, ascending in timestamp, rows of equal timestamp in document
\* order.
C5_CaptionsExactlyOnceInStableOrder ==
    (pc = "done")
        => /\ Cardinality(PositionsOf("line")) = Len(rows)
           /\ \A r \in 1..Len(rows) : Cardinality(PositionsOfLine("line", r)) = 1
           /\ \A p, q \in PositionsOf("line") :
                 p < q => \/ CaptionTs(out[p].val) < CaptionTs(out[q].val)
                          \/ /\ CaptionTs(out[p].val) = CaptionTs(out[q].val)
                             /\ out[p].val < out[q].val

\* three rows, out of order in the document and two of them at one timestamp,
\* have been written around a thumbnail line
C5_Witness ==
    /\ pc = "done" /\ Len(rows) = 3 /\ thumb_idx > 0
    /\ CaptionTs(1) > CaptionTs(2) /\ CaptionTs(1) = CaptionTs(3)
    /\ Cardinality(PositionsOf("line")) = 3

=============================================================================
